---- MODULE Spec2Model ----
(***************************************************************************)
(* fabulous-json: stringify(value, options), the layout engine that prints *)
(* a JSON value inline, as an aligned table, as a packed grid or one item  *)
(* per line (src/src/index.ts).                                            *)
(*                                                                         *)
(* Text is a sequence of one-character strings, so that lengths, columns   *)
(* and line breaks are what the code computes on JavaScript strings.       *)
(* A JavaScript value is a record [t, b, n, e, s, keys, items]:            *)
(*   t = "undef" | "func" | "null" | "bool" | "num" | "str" | "arr" | "obj"*)
(*   b      the boolean of a "bool"                                        *)
(*   n, e   the number n / 10^e of a "num" (e = 0 or n not a multiple of   *)
(*          ten), the decimal numbers whose text has no exponent           *)
(*   s      the characters of a "str"                                      *)
(*   keys   the own keys of an "obj", in insertion order                   *)
(*   items  the items of an "arr", or the values of an "obj" key by key    *)
(***************************************************************************)
EXTENDS Integers, Sequences, FiniteSets, TLC

VARIABLES value, opts, pc, out

vars == <<value, opts, pc, out>>

(* ------------------------------ text --------------------------------- *)

SP == " "
NL == "\n"
COMMA == ","
DQ == "\""
BSL == "\\"

Repeat(c, n) == [i \in 1..n |-> c]

RECURSIVE Join(_, _)
Join(items, sep) ==
  IF Len(items) = 0 THEN <<>>
  ELSE IF Len(items) = 1 THEN items[1]
  ELSE items[1] \o sep \o Join(Tail(items), sep)

Includes(s, c) == \E i \in 1..Len(s) : s[i] = c

\* String.prototype.indexOf for one character, 0-based, -1 when absent
IndexOf(s, c) ==
  IF Includes(s, c)
  THEN (CHOOSE i \in 1..Len(s) : s[i] = c /\ \A j \in 1..(i - 1) : s[j] # c) - 1
  ELSE -1

Max2(a, b) == IF a >= b THEN a ELSE b
Min2(a, b) == IF a <= b THEN a ELSE b

SeqRange(s) == {s[i] : i \in 1..Len(s)}

(* ------------------------------ values ------------------------------- *)

Blank == [t |-> "undef", b |-> FALSE, n |-> 0, e |-> 0, s |-> <<>>, keys |-> <<>>, items |-> <<>>]

Undef == Blank
Func == [Blank EXCEPT !.t = "func"]
Null == [Blank EXCEPT !.t = "null"]
Bool(b) == [Blank EXCEPT !.t = "bool", !.b = b]
Num(n) == [Blank EXCEPT !.t = "num", !.n = n]
\* the number n / 10^e, in lowest terms
RECURSIVE Dec(_, _)
Dec(n, e) ==
  IF e > 0 /\ n % 10 = 0 THEN Dec(n \div 10, e - 1)
  ELSE [Blank EXCEPT !.t = "num", !.n = n, !.e = e]
Str(s) == [Blank EXCEPT !.t = "str", !.s = s]
Arr(items) == [Blank EXCEPT !.t = "arr", !.items = items]
Obj(keys, items) == [Blank EXCEPT !.t = "obj", !.keys = keys, !.items = items]

IsUndefined(v) == v.t = "undef"
IsFunction(v) == v.t = "func"
IsArray(v) == v.t = "arr"
\* typeof v === 'object'
TypeofObject(v) == v.t \in {"null", "arr", "obj"}
\* typeof el !== 'undefined' && typeof el !== 'function'
Representable(v) == ~IsUndefined(v) /\ ~IsFunction(v)

(* ------------------------- scalar encoding --------------------------- *)

DigitChars == <<"0", "1", "2", "3", "4", "5", "6", "7", "8", "9">>

RECURSIVE NatText(_)
NatText(n) ==
  IF n < 10 THEN <<DigitChars[n + 1]>>
  ELSE NatText(n \div 10) \o <<DigitChars[(n % 10) + 1]>>

RECURSIVE Pow10(_)
Pow10(e) == IF e = 0 THEN 1 ELSE 10 * Pow10(e - 1)

\* the e fraction digits of f, leading zeros kept
RECURSIVE FracText(_, _)
FracText(f, e) ==
  IF e = 0 THEN <<>>
  ELSE FracText(f \div 10, e - 1) \o <<DigitChars[(f % 10) + 1]>>

\* JSON.stringify(number) for n / 10^e
NumText(n, e) ==
  LET a == IF n < 0 THEN 0 - n ELSE n
      sign == IF n < 0 THEN <<"-">> ELSE <<>>
  IN  sign \o NatText(a \div Pow10(e))
        \o (IF e = 0 THEN <<>> ELSE <<".">> \o FracText(a % Pow10(e), e))

\* JSON.stringify(string): quotes around it, '"' and '\' escaped
RECURSIVE Escape(_)
Escape(s) ==
  IF Len(s) = 0 THEN <<>>
  ELSE (IF s[1] \in {DQ, BSL} THEN <<BSL, s[1]>> ELSE <<s[1]>>) \o Escape(Tail(s))

StrText(s) == <<DQ>> \o Escape(s) \o <<DQ>>

(* ------------------------- property access --------------------------- *)

\* String(i) for an array index i >= 0
IndexKey(i) == NatText(i)

IsDigit(c) == \E d \in 1..10 : DigitChars[d] = c

\* a canonical array index: "0", or digits without a leading zero
IsIndexKey(k) ==
  /\ Len(k) > 0
  /\ \A i \in 1..Len(k) : IsDigit(k[i])
  /\ (Len(k) > 1 => k[1] # "0")

DigitValue(c) == (CHOOSE d \in 1..10 : DigitChars[d] = c) - 1

RECURSIVE KeyNumber(_)
KeyNumber(k) ==
  IF Len(k) = 0 THEN 0
  ELSE 10 * KeyNumber(SubSeq(k, 1, Len(k) - 1)) + DigitValue(k[Len(k)])

\* Object.keys(v) of an array, an object or a function
OwnKeys(v) ==
  IF v.t = "arr" THEN [i \in 1..Len(v.items) |-> IndexKey(i - 1)]
  ELSE IF v.t = "obj" THEN v.keys
  ELSE <<>>

\* key in v
HasKey(v, k) == \E i \in 1..Len(OwnKeys(v)) : OwnKeys(v)[i] = k

\* v?.[k]: undefined on undefined, on a missing key and on a function
Get(v, k) ==
  IF HasKey(v, k)
  THEN v.items[CHOOSE i \in 1..Len(OwnKeys(v)) : OwnKeys(v)[i] = k]
  ELSE Undef

\* Object.values(v) / the array itself
ValuesOf(v) == v.items

\* v.length of an array row; a function row has the length of its
\* parameter list, which is empty for the functions modelled here
RowLength(v) == IF v.t = "arr" THEN Len(v.items) ELSE 0

(* ---------------------- helpers (lines 520-583) ---------------------- *)

RECURSIVE sum(_)
sum(ns) == IF Len(ns) = 0 THEN 0 ELSE ns[1] + sum(Tail(ns))

RECURSIVE arrMin(_)
arrMin(ns) == IF Len(ns) = 1 THEN ns[1] ELSE Min2(ns[1], arrMin(Tail(ns)))

RECURSIVE arrMax(_)
arrMax(ns) == IF Len(ns) = 1 THEN ns[1] ELSE Max2(ns[1], arrMax(Tail(ns)))

anyCommon(a, b) == \E i \in a : i \in b

\* Math.ceil(Math.sqrt(n))
CeilSqrt(n) == CHOOSE h \in 0..n : h * h >= n /\ \A g \in 0..(h - 1) : g * g < n

\* Math.ceil(a / b)
CeilDiv(a, b) == (a + b - 1) \div b

(* ------------------- getTableColumnOrder (585-639) ------------------- *)

\* first-seen order of the elements of a sequence (Array.from(new Set(..)))
RECURSIVE Dedup(_, _)
Dedup(s, seen) ==
  IF Len(s) = 0 THEN seen
  ELSE Dedup(Tail(s), IF s[1] \in SeqRange(seen) THEN seen ELSE Append(seen, s[1]))

RECURSIVE Flat(_)
Flat(ss) == IF Len(ss) = 0 THEN <<>> ELSE ss[1] \o Flat(Tail(ss))

\* itemKeys.indexOf(key), 1-based, 0 when absent
KeyIndex(itemKeys, key) ==
  IF key \in SeqRange(itemKeys)
  THEN CHOOSE i \in 1..Len(itemKeys) :
         itemKeys[i] = key /\ \A j \in 1..(i - 1) : itemKeys[j] # key
  ELSE 0

\* keyPositions with the second inner loop left out: no key is ever recorded
\* as seen after another
keyPositionsBeforeOnly(keys, allKeys) ==
  [k \in SeqRange(allKeys) |->
     LET hit == {i \in 1..Len(keys) : k # allKeys[1] /\ KeyIndex(keys[i], k) > 0}
     IN  [before |-> UNION {{keys[i][x] : x \in 1..(KeyIndex(keys[i], k) - 1)} : i \in hit},
          after  |-> {}]]

\* lines 615-633: the keys seen before and after each key; the loop over
\* allKeys starts at its second element
keyPositions(keys, allKeys) ==
  [k \in SeqRange(allKeys) |->
     LET hit == {i \in 1..Len(keys) : k # allKeys[1] /\ KeyIndex(keys[i], k) > 0}
     IN  [before |-> UNION {{keys[i][x] : x \in 1..(KeyIndex(keys[i], k) - 1)} : i \in hit},
          after  |-> UNION {{keys[i][x] : x \in (KeyIndex(keys[i], k) + 1)..Len(keys[i])} : i \in hit}]]

B2N(b) == IF b THEN 1 ELSE 0

\* the comparator of line 637
compareKeys(kp, a, b) ==
  B2N(b \in kp[a].before) - B2N(a \in kp[b].before)
    + B2N(a \in kp[b].after) - B2N(b \in kp[a].after)

\* Object.entries(keyPositions): integer-like keys first, ascending, then the
\* other keys in insertion order
RECURSIVE SortIndexKeys(_)
SortIndexKeys(ks) ==
  IF Len(ks) = 0 THEN <<>>
  ELSE LET m == CHOOSE i \in 1..Len(ks) :
                  \A j \in 1..Len(ks) : KeyNumber(ks[i]) <= KeyNumber(ks[j])
       IN  <<ks[m]>> \o SortIndexKeys(SubSeq(ks, 1, m - 1) \o SubSeq(ks, m + 1, Len(ks)))

IsNotIndexKey(k) == ~IsIndexKey(k)

EntriesOrder(allKeys) ==
  SortIndexKeys(SelectSeq(allKeys, IsIndexKey)) \o SelectSeq(allKeys, IsNotIndexKey)

\* Array.prototype.sort of line 636 as the engine runs it on an array shorter
\* than 64: the leading run is found (and reversed when descending), and
\* the other elements are put in place by binary insertion
RECURSIVE RunEnd(_, _, _, _)
RunEnd(a, kp, desc, i) ==
  IF i > Len(a) THEN Len(a)
  ELSE LET order == compareKeys(kp, a[i], a[i - 1])
       IN  IF desc
           THEN (IF order >= 0 THEN i - 1 ELSE RunEnd(a, kp, desc, i + 1))
           ELSE (IF order < 0 THEN i - 1 ELSE RunEnd(a, kp, desc, i + 1))

Reverse(s) == [i \in 1..Len(s) |-> s[Len(s) + 1 - i]]

\* the insertion point of pivot in a[left + 1 .. right] (left, right 0-based)
RECURSIVE BinarySearch(_, _, _, _, _)
BinarySearch(a, kp, pivot, left, right) ==
  IF left >= right THEN left
  ELSE LET mid == left + ((right - left) \div 2)
       IN  IF compareKeys(kp, pivot, a[mid + 1]) < 0
           THEN BinarySearch(a, kp, pivot, left, mid)
           ELSE BinarySearch(a, kp, pivot, mid + 1, right)

RECURSIVE BinaryInsertion(_, _, _)
BinaryInsertion(a, kp, start) ==
  IF start > Len(a) THEN a
  ELSE LET pivot == a[start]
           pos == BinarySearch(a, kp, pivot, 0, start - 1)
       IN  BinaryInsertion(
             SubSeq(a, 1, pos) \o <<pivot>> \o SubSeq(a, pos + 1, start - 1)
               \o SubSeq(a, start + 1, Len(a)),
             kp, start + 1)

SortKeys(a, kp) ==
  IF Len(a) < 2 THEN a
  ELSE LET desc == compareKeys(kp, a[2], a[1]) < 0
           run == RunEnd(a, kp, desc, 3)
           b == IF desc THEN Reverse(SubSeq(a, 1, run)) \o SubSeq(a, run + 1, Len(a)) ELSE a
       IN  BinaryInsertion(b, kp, run + 1)

\* the test of line 611 with the keys of the union counted in place of the
\* shared keys
tooFewKeysOfUnion(sharedKeys, allKeys, tableMinSharedKeys) ==
  Len(allKeys) < Min2(tableMinSharedKeys, Len(allKeys))

\* line 611: sharedKeys.length < Math.min(tableMinSharedKeys, allKeys.length)
tooFewSharedKeys(sharedKeys, allKeys, tableMinSharedKeys) ==
  Cardinality(sharedKeys) < Min2(tableMinSharedKeys, Len(allKeys))

NoOrder == [ok |-> FALSE, order |-> <<>>]
Order(o) == [ok |-> TRUE, order |-> o]

\* getTableColumnOrder(table, maxObjectProperties, tableMinSharedKeys);
\* NoOrder is the null it returns
getTableColumnOrder(table, maxObjectProperties, tableMinSharedKeys) ==
  IF table.t \notin {"arr", "obj"} THEN NoOrder
  ELSE
  LET values == SelectSeq(ValuesOf(table), Representable)
  IN
  IF Len(values) <= 1 THEN NoOrder
  ELSE IF IsArray(values[1]) THEN
    LET length == Len(values[1].items)
    IN  IF \A i \in 1..Len(values) : IsArray(values[i]) /\ Len(values[i].items) = length
        THEN Order([i \in 1..length |-> IndexKey(i - 1)])
        ELSE NoOrder
  ELSE IF \E i \in 1..Len(values) : values[i].t \notin {"arr", "obj"} THEN NoOrder
  ELSE
  LET keys == [i \in 1..Len(values) |-> OwnKeys(values[i])]
  IN
  IF \E i \in 1..Len(keys) : Len(keys[i]) > maxObjectProperties THEN NoOrder
  ELSE
  LET allKeys == Dedup(Flat(keys), <<>>)
      sharedKeys == {k \in SeqRange(allKeys) : \A i \in 1..Len(values) : HasKey(values[i], k)}
  IN
  IF tooFewSharedKeys(sharedKeys, allKeys, tableMinSharedKeys) THEN NoOrder
  ELSE
  LET kp == keyPositions(keys, allKeys)
  IN
  IF \E k \in SeqRange(allKeys) : anyCommon(kp[k].before, kp[k].after) THEN NoOrder
  ELSE Order(SortKeys(EntriesOrder(allKeys), kp))

(* ---------------------- options (lines 139-172) ---------------------- *)

\* opts.given is the set of option names the options object holds; the
\* other fields of opts are the values of those options.
Given(name) == name \in opts.given

maxLineLength == IF Given("maxLineLength") THEN opts.maxLineLength ELSE 100
maxArrayItems == IF Given("maxArrayItems") THEN opts.maxArrayItems ELSE 6
maxObjectProperties == IF Given("maxObjectProperties") THEN opts.maxObjectProperties ELSE 6
\* twice maxArrayItemLength, whose default maxLineLength / 2 need not be whole
maxArrayItemLength2 ==
  IF Given("maxArrayItemLength") THEN 2 * opts.maxArrayItemLength ELSE maxLineLength
compactLongArrays == IF Given("compactLongArrays") THEN opts.compactLongArrays ELSE TRUE
tables == IF Given("tables") THEN opts.tables ELSE TRUE
tableArrays == tables /\ (IF Given("tableArrays") THEN opts.tableArrays ELSE TRUE)
tableObjects == tables /\ (IF Given("tableObjects") THEN opts.tableObjects ELSE TRUE)
tableMinSharedKeys == IF Given("tableMinSharedKeys") THEN opts.tableMinSharedKeys ELSE 1
tablePadEndOfRows == IF Given("tablePadEndOfRows") THEN opts.tablePadEndOfRows ELSE TRUE
tableDecimalAlignment ==
  IF Given("tableDecimalAlignment") THEN opts.tableDecimalAlignment ELSE TRUE

\* opts.indent is [kind |-> "null" | "num" | "str", n, s]
indent ==
  IF ~Given("indent") THEN <<SP, SP>>
  ELSE IF opts.indent.kind = "null" THEN <<>>
  ELSE IF opts.indent.kind = "num" THEN Repeat(SP, Max2(0, Min2(10, opts.indent.n)))
  ELSE SubSeq(opts.indent.s, 1, Min2(10, Len(opts.indent.s)))

\* opts.replace, opts.allowInline and opts.allowTable name the callback the
\* option holds; "notFunction" is a value that is not a function
NotFunction == "notFunction"

hasReplaceFunc == Given("replace")
hasAllowInline == Given("allowInline")
hasAllowTable == Given("allowTable")

\* the callbacks the options may hold
replaceFunc(parentObj, key, val) ==
  CASE opts.replace = "double" ->
         (IF val.t = "num" THEN Dec(2 * val.n, val.e) ELSE val)
    [] opts.replace = "dropStrings" -> (IF val.t = "str" THEN Undef ELSE val)
    [] OTHER -> val

allowInlineFunc(parentObj, key, val) ==
  CASE opts.allowInline = "never" -> FALSE
    [] opts.allowInline = "notArrays" -> ~IsArray(val)
    [] OTHER -> TRUE

allowTableFunc(parentObj, key, val) ==
  CASE opts.allowTable = "never" -> FALSE
    [] opts.allowTable = "notArrays" -> ~IsArray(val)
    [] OTHER -> TRUE

(* ------------------------------ history ------------------------------ *)

\* What one call did, in order: each call of the replace callback with its
\* receiver, key and value, and each container printed as a table, inline,
\* as a packed grid or one item per line.
\* n is the column count of a table and rowsAreArrays tells its row kind.
Ev(e, parent, key, val, n, rowsAreArrays) ==
  [e |-> e, parent |-> parent, key |-> key, val |-> val, n |-> n, rowsAreArrays |-> rowsAreArrays]

IsCall(ev) == ev.e = "replace"

\* the callback calls of a history: what is left of the history of a table
\* that was given up
Calls(log) == SelectSeq(log, IsCall)

(* ---------------------- decimalAlignment (641-665) -------------------- *)

\* a slot of a sparse array of texts
Cell(s) == [def |-> TRUE, s |-> s]
Hole == [def |-> FALSE, s |-> <<>>]

decimalIndex(n) == IF IndexOf(n, ".") > 0 THEN IndexOf(n, ".") ELSE Len(n)

RECURSIVE maxDecimalIndex(_)
maxDecimalIndex(numbers) ==
  IF Len(numbers) = 0 THEN 0
  ELSE Max2(IF numbers[1].def THEN decimalIndex(numbers[1].s) ELSE 0,
            maxDecimalIndex(Tail(numbers)))

\* decimalAlignment with the texts padded to one length, whatever the place
\* of their decimal points
decimalAlignmentByLength(numbers) ==
  [i \in 1..Len(numbers) |->
     IF numbers[i].def
     THEN Cell(Repeat(SP, arrMax([j \in 1..Len(numbers) |-> Len(numbers[j].s)])
                            - Len(numbers[i].s)) \o numbers[i].s)
     ELSE Hole]

decimalAlignment(numbers) ==
  [i \in 1..Len(numbers) |->
     IF numbers[i].def
     THEN Cell(Repeat(SP, maxDecimalIndex(numbers) - decimalIndex(numbers[i].s)) \o numbers[i].s)
     ELSE Hole]

\* !Number.isNaN(Number(s)) for the text of a rendered value
IsNumericText(s) ==
  /\ \E i \in 1..Len(s) : IsDigit(s[i])
  /\ \A i \in 1..Len(s) : IsDigit(s[i]) \/ (s[i] = "-" /\ i = 1) \/ s[i] = "."
  /\ Cardinality({i \in 1..Len(s) : s[i] = "."}) <= 1

(* ------------------------- packer (544-576) --------------------------- *)

getColumnWidths(lengths, columnCount) ==
  [j \in 1..Min2(columnCount, Len(lengths)) |->
     arrMax([x \in 1..CeilDiv(Len(lengths) - j + 1, columnCount) |->
               lengths[j + (x - 1) * columnCount]])]

\* joinColumns: a negative repeat count raises a RangeError
joinColumnsThrows(items, columnWidths) ==
  \E i \in 2..Len(items) : columnWidths[i - 1] - Len(items[i - 1]) + 1 < 0

RECURSIVE joinColumnsFrom(_, _, _, _)
joinColumnsFrom(items, columnWidths, i, line) ==
  IF i > Len(items) THEN line
  ELSE joinColumnsFrom(items, columnWidths, i + 1,
         line \o <<COMMA>> \o Repeat(SP, columnWidths[i - 1] - Len(items[i - 1]) + 1)
              \o items[i])

joinColumns(items, columnWidths) == joinColumnsFrom(items, columnWidths, 2, items[1])

RECURSIVE findBest(_, _, _, _, _)
findBest(itemLengths, maxLen, low, high, best) ==
  IF low > high THEN best
  ELSE LET mid == (low + high) \div 2
           columnWidths == getColumnWidths(itemLengths, mid)
           totalWidth == sum(columnWidths) + (mid - 1) * 2
       IN  IF totalWidth <= maxLen
           THEN findBest(itemLengths, maxLen, mid + 1, high, mid)
           ELSE findBest(itemLengths, maxLen, low, mid - 1, best)

\* findMaxItemsWide: [ best, bestColumnWidths ]
findMaxItemsWide(items, itemLengths, maxLen) ==
  LET best == findBest(itemLengths, maxLen, 1, CeilSqrt(Len(items)), 1)
  IN  <<best, getColumnWidths(itemLengths, best)>>

(* ---------------- formatArray / formatObject (460-515) ---------------- *)

Text(st, text, how) == [st |-> st, text |-> text, how |-> how]

Lengths(items) == [i \in 1..Len(items) |-> Len(items[i])]

\* indent.repeat(n)
RECURSIVE IndentRepeat(_)
IndentRepeat(n) == IF n <= 0 THEN <<>> ELSE indent \o IndentRepeat(n - 1)

Lines(open, close, rows, depth) ==
  <<open, NL>> \o IndentRepeat(depth + 1)
    \o Join(rows, <<COMMA, NL>> \o IndentRepeat(depth + 1))
    \o <<NL>> \o IndentRepeat(depth) \o <<close>>

formatArray(items, depth, nestedItems, keyLength, allowInline) ==
  LET line == <<"[", SP>> \o Join(items, <<COMMA, SP>>) \o <<SP, "]">>
      itemLengths == Lengths(items)
      min == arrMin(itemLengths)
      max == arrMax(itemLengths)
      found == findMaxItemsWide(items, itemLengths, maxLineLength)
      itemsWide == found[1]
      columnWidths == found[2]
      chunk(i) == SubSeq(items, (i - 1) * itemsWide + 1, Min2(i * itemsWide, Len(items)))
      rowCount == CeilDiv(Len(items), itemsWide)
  IN
  IF Len(items) = 0 THEN Text("ok", <<"[", "]">>, "empty")
  ELSE IF /\ allowInline
          /\ ~nestedItems
          /\ Len(items) <= maxArrayItems
          /\ \A i \in 1..Len(items) : 2 * Len(items[i]) <= maxArrayItemLength2
          /\ keyLength + Len(line) <= maxLineLength
          /\ ~Includes(line, NL)
  THEN Text("ok", line, "inline")
  ELSE IF /\ compactLongArrays
          /\ Len(items) > maxArrayItems
          /\ \A i \in 1..Len(items) :
               ~Includes(items[i], NL) /\ (Len(items[i]) > 0 => items[i][1] \notin {"[", "{"})
          \* (max - min) < Math.max(4, mean * 0.25), mean = sum / length
          /\ (max - min < 4 \/ (max - min) * 4 * Len(items) < sum(itemLengths))
  THEN IF \E i \in 1..rowCount : joinColumnsThrows(chunk(i), columnWidths)
       THEN Text("throw", <<>>, "RangeError")
       ELSE Text("ok",
                 Lines("[", "]", [i \in 1..rowCount |-> joinColumns(chunk(i), columnWidths)], depth),
                 "packed")
  ELSE Text("ok", Lines("[", "]", items, depth), "lines")

formatObject(items, depth, nestedItems, keyLength, allowInline) ==
  LET line == <<"{", SP>> \o Join(items, <<COMMA, SP>>) \o <<SP, "}">>
  IN
  IF Len(items) = 0 THEN Text("ok", <<"{", "}">>, "empty")
  ELSE IF /\ allowInline
          /\ ~nestedItems
          /\ Len(items) <= maxObjectProperties
          /\ keyLength + Len(line) <= maxLineLength
          /\ ~Includes(line, NL)
  THEN Text("ok", line, "inline")
  ELSE Text("ok", Lines("{", "}", items, depth), "lines")

(* ------------------- the layout engine (174-458) ---------------------- *)

\* What processValue hands back: st = "ok" with the record { result, nested },
\* "undef" when it falls off its end (undefined), "null" for the null of line
\* 251, "throw" when an error was raised (err names it).
PV(st, result, nested, log, err) ==
  [st |-> st, result |-> result, nested |-> nested, log |-> log, err |-> err]

Ok(result, nested, log) == PV("ok", result, nested, log, "")
Thrown(err, log) == PV("throw", <<>>, FALSE, log, err)

\* What tableOfArrays / tableOfObjects hand back: st = "ok" with the rows,
\* "none" for null, "throw" for an error.
Tab(st, rows, log, err) == [st |-> st, rows |-> rows, log |-> log, err |-> err]

\* an entry of columnWidths: a number, or undefined when never assigned
Width(v) == [def |-> TRUE, v |-> v]
NoWidth == [def |-> FALSE, v |-> 0]

\* Math.max(columnWidths[i] ?? 0, sl)
WidenTo(w, sl) == Width(Max2(IF w.def THEN w.v ELSE 0, sl))

\* the loop state of the columns of a table
Cols(st, columns, widths, log, err) ==
  [st |-> st, columns |-> columns, widths |-> widths, log |-> log, err |-> err]

\* the loop state of the cells of one column
Cells(st, cells, width, numeric, log, err) ==
  [st |-> st, cells |-> cells, width |-> width, numeric |-> numeric, log |-> log, err |-> err]

\* column.find(e => e !== undefined)
FirstDefined(column) ==
  IF \E j \in 1..Len(column) : ~IsUndefined(column[j])
  THEN column[CHOOSE j \in 1..Len(column) :
                ~IsUndefined(column[j]) /\ \A x \in 1..(j - 1) : IsUndefined(column[x])]
  ELSE Undef

\* one cell of a row: the cell with its comma and padding, or blanks
\* (' '.repeat(NaN) is the empty string)
RowPiece(slot, width, isLast) ==
  IF ~slot.def
  THEN (IF width.def THEN Repeat(SP, width.v + 2) ELSE <<>>)
  ELSE slot.s \o (IF isLast THEN <<>> ELSE <<COMMA>>)
         \o Repeat(SP, width.v - Len(slot.s) + 1)

\* the repeat count of a present cell is negative: RangeError
RowPieceThrows(slot, width) == slot.def /\ width.v - Len(slot.s) + 1 < 0

\* lines 357-369 and 442-455: one row between its brackets, over the columns
\* 0 .. end - 1
RowText(open, close, columns, widths, i, end, lastFilledColumn) ==
  <<open, SP>>
    \o Flat([c \in 1..end |-> RowPiece(columns[c][i], widths[c], c - 1 = lastFilledColumn)])
    \o <<close>>

RowThrows(columns, widths, i, end) ==
  \E c \in 1..end : RowPieceThrows(columns[c][i], widths[c])

NullText == <<"n", "u", "l", "l">>
TrueText == <<"t", "r", "u", "e">>
FalseText == <<"f", "a", "l", "s", "e">>

RECURSIVE processValue(_, _, _, _, _, _)
RECURSIVE arrayItems(_, _, _, _, _, _, _)
RECURSIVE objectItems(_, _, _, _, _, _, _, _)
RECURSIVE tableOfArrays(_, _)
RECURSIVE tableOfObjects(_, _)
RECURSIVE arrayColumns(_, _, _, _, _, _)
RECURSIVE objectColumns(_, _, _, _, _, _)
RECURSIVE tableCells(_, _, _, _, _, _)
RECURSIVE plainObjectCells(_, _, _, _, _, _)

\* lines 305-312
replaceArrayItems(val) ==
  Arr([i \in 1..Len(val.items) |-> replaceFunc(val, IndexKey(i - 1), val.items[i])])

replaceArrayItemsLog(val) ==
  [i \in 1..Len(val.items) |-> Ev("replace", val, IndexKey(i - 1), val.items[i], 0, FALSE)]

\* lines 295-303
replaceObjectProperties(val, keys) ==
  Obj(keys, [i \in 1..Len(keys) |-> replaceFunc(val, keys[i], Get(val, keys[i]))])

replaceObjectPropertiesLog(val, keys) ==
  [i \in 1..Len(keys) |-> Ev("replace", val, keys[i], Get(val, keys[i]), 0, FALSE)]

\* lines 340-344 and 407-409: what the loop over a column does with the
\* rendered cell p
tableCell(column, key, rows, checkLength, j, acc, p) ==
  IF p.st = "throw" THEN Cells("throw", <<>>, NoWidth, FALSE, acc.log \o p.log, p.err)
  \* the result of undefined
  ELSE IF p.st # "ok" THEN Cells("throw", <<>>, NoWidth, FALSE, acc.log \o p.log, "TypeError")
  ELSE IF (checkLength /\ Len(p.result) > maxLineLength) \/ Includes(p.result, NL)
  THEN Cells("none", <<>>, NoWidth, FALSE, acc.log \o p.log, "")
  ELSE tableCells(column, key, rows, checkLength, j + 1,
         Cells("ok", Append(acc.cells, Cell(p.result)), WidenTo(acc.width, Len(p.result)),
               acc.numeric /\ IsNumericText(p.result), acc.log \o p.log, ""))

\* lines 336-345 (rows that are arrays) and 403-410 (rows that are objects,
\* decimal alignment on): the cells of a column that is not a sub-table,
\* each rendered by processValue with tables off; checkLength is the
\* sl > maxLineLength test the first loop makes and the second does not.
tableCells(column, key, rows, checkLength, j, acc) ==
  IF j > Len(column) THEN acc
  ELSE IF IsUndefined(column[j])
  THEN tableCells(column, key, rows, checkLength, j + 1,
                  [acc EXCEPT !.cells = Append(@, Hole)])
  ELSE tableCell(column, key, rows, checkLength, j, acc,
                 processValue(key, column[j], 0, Arr(rows), 0, FALSE))

\* lines 427-431: what the loop does with the rendered cell p
plainObjectCell(column, columnKey, rowObjs, jsonKey, j, acc, p) ==
  LET s == jsonKey \o <<":", SP>> \o p.result
  IN  IF p.st = "throw" THEN Cells("throw", <<>>, NoWidth, FALSE, acc.log \o p.log, p.err)
      ELSE IF p.st # "ok"
      THEN Cells("throw", <<>>, NoWidth, FALSE, acc.log \o p.log, "TypeError")
      ELSE IF Len(s) > maxLineLength \/ Includes(s, NL)
      THEN Cells("none", <<>>, NoWidth, FALSE, acc.log \o p.log, "")
      ELSE plainObjectCells(column, columnKey, rowObjs, jsonKey, j + 1,
             Cells("ok", Append(acc.cells, Cell(s)), WidenTo(acc.width, Len(s)),
                   FALSE, acc.log \o p.log, ""))

\* lines 424-432 (rows that are objects, decimal alignment off)
plainObjectCells(column, columnKey, rowObjs, jsonKey, j, acc) ==
  IF j > Len(column) THEN acc
  ELSE IF IsUndefined(column[j])
  THEN plainObjectCells(column, columnKey, rowObjs, jsonKey, j + 1,
                        [acc EXCEPT !.cells = Append(@, Hole)])
  ELSE plainObjectCell(column, columnKey, rowObjs, jsonKey, j, acc,
                       processValue(columnKey, column[j], 0, Arr(rowObjs), 0, FALSE))

EmptyCells == Cells("ok", <<>>, NoWidth, TRUE, <<>>, "")

NoTable == Tab("none", <<>>, <<>>, "")

\* lines 321-325 and 383-387: the sub-table of a column, when its values
\* have a column order
subtableOf(column, subcolumnOrder) ==
  IF ~subcolumnOrder.ok THEN NoTable
  ELSE IF IsArray(FirstDefined(column))
  THEN tableOfArrays(column, Len(subcolumnOrder.order))
  ELSE tableOfObjects(column, subcolumnOrder.order)

\* line 322 and line 384
subtableTooWide(column, subcolumnOrder) ==
  /\ subcolumnOrder.ok
  /\ Len(subcolumnOrder.order) >
       (IF IsArray(FirstDefined(column)) THEN maxArrayItems ELSE maxObjectProperties)

\* lines 333-348: column i is not a sub-table, cells are its rendered cells
arrayColumnCells(rowArrs, columnCount, i, columns, widths, log, cells) ==
  IF cells.st # "ok" THEN Cols(cells.st, <<>>, <<>>, log \o cells.log, cells.err)
  ELSE arrayColumns(rowArrs, columnCount, i + 1,
         Append(columns, IF tableDecimalAlignment /\ cells.numeric
                         THEN decimalAlignment(cells.cells) ELSE cells.cells),
         Append(widths, cells.width),
         log \o cells.log)

\* lines 326-331: column i with what came of its sub-table
arraySubtable(rowArrs, columnCount, i, columns, widths, log, column, subcolumnOrder, subtable) ==
  IF subtable.st = "throw" THEN Cols("throw", <<>>, <<>>, log \o subtable.log, subtable.err)
  ELSE IF subtable.st = "ok"
  THEN arrayColumns(rowArrs, columnCount, i + 1,
         Append(columns, [j \in 1..Len(column) |-> Cell(subtable.rows[j])]),
         Append(widths, Width(Len(subtable.rows[1]))),
         log \o subtable.log
           \o <<Ev("subtable", Arr(rowArrs), IndexKey(i), Arr(column),
                   Len(subcolumnOrder.order), IsArray(FirstDefined(column)))>>)
  ELSE arrayColumnCells(rowArrs, columnCount, i, columns, widths, log \o subtable.log,
                        tableCells(column, IndexKey(i), rowArrs, TRUE, 1, EmptyCells))

\* lines 318-332: column i with its values and their column order
arrayColumn(rowArrs, columnCount, i, columns, widths, log, column, subcolumnOrder) ==
  IF subtableTooWide(column, subcolumnOrder) THEN Cols("none", <<>>, <<>>, log, "")
  ELSE arraySubtable(rowArrs, columnCount, i, columns, widths, log, column, subcolumnOrder,
                     subtableOf(column, subcolumnOrder))

\* rowArrs.map(e => e?.[i]) and rowObjs.map(e => e?.[columnKey])
columnOf(rows, key) == [j \in 1..Len(rows) |-> Get(rows[j], key)]

\* lines 317-349: the columns of a table of arrays, column i (0-based) on
arrayColumns(rowArrs, columnCount, i, columns, widths, log) ==
  IF i >= columnCount THEN Cols("ok", columns, widths, log, "")
  ELSE arrayColumn(rowArrs, columnCount, i, columns, widths, log,
                   columnOf(rowArrs, IndexKey(i)),
                   getTableColumnOrder(Arr(columnOf(rowArrs, IndexKey(i))),
                                       maxObjectProperties, tableMinSharedKeys))

\* lines 351-371: the rows of the table, over its columns
arrayRows(rowArrs, columnCount, cols) ==
  LET lastFilledColumn(i) == RowLength(rowArrs[i]) - 1
      end(i) == IF tablePadEndOfRows THEN columnCount ELSE lastFilledColumn(i) + 1
  IN
  IF cols.st # "ok" THEN Tab(cols.st, <<>>, cols.log, cols.err)
  ELSE IF \E i \in 1..Len(rowArrs) :
            ~IsUndefined(rowArrs[i]) /\ RowThrows(cols.columns, cols.widths, i, end(i))
  THEN Tab("throw", <<>>, cols.log, "RangeError")
  ELSE Tab("ok",
           [i \in 1..Len(rowArrs) |->
              IF IsUndefined(rowArrs[i]) THEN <<>>
              ELSE RowText("[", "]", cols.columns, cols.widths, i, end(i), lastFilledColumn(i))],
           cols.log, "")

\* lines 314-372
tableOfArrays(rowArrs, columnCount) ==
  arrayRows(rowArrs, columnCount, arrayColumns(rowArrs, columnCount, 0, <<>>, <<>>, <<>>))

\* lines 414-421: the key label put before each cell of a column of a table
\* of objects, after the decimal alignment
RECURSIVE labelCells(_, _, _, _)
labelCells(cells, jsonKey, j, acc) ==
  IF j > Len(cells) THEN acc
  ELSE IF ~cells[j].def
  THEN labelCells(cells, jsonKey, j + 1, [acc EXCEPT !.cells = Append(@, Hole)])
  ELSE LET s == jsonKey \o <<":", SP>> \o cells[j].s
       IN  IF Len(s) > maxLineLength THEN Cells("none", <<>>, NoWidth, FALSE, acc.log, "")
           ELSE labelCells(cells, jsonKey, j + 1,
                  Cells("ok", Append(acc.cells, Cell(s)), WidenTo(acc.width, Len(s)),
                        acc.numeric, acc.log, ""))

\* lines 401-413: the cells of a column with decimal alignment on, aligned
\* when they are all numeric and then labelled
alignedCells(raw, jsonKey) ==
  IF raw.st # "ok" THEN raw
  ELSE labelCells(IF raw.numeric THEN decimalAlignment(raw.cells) ELSE raw.cells, jsonKey, 1,
                  Cells("ok", <<>>, NoWidth, raw.numeric, raw.log, ""))

\* lines 398-433: column i is not a sub-table, cells are its labelled cells
objectColumnCells(rowObjs, columnOrder, i, columns, widths, log, cells) ==
  IF cells.st # "ok" THEN Cols(cells.st, <<>>, <<>>, log \o cells.log, cells.err)
  ELSE objectColumns(rowObjs, columnOrder, i + 1,
         Append(columns, cells.cells), Append(widths, cells.width), log \o cells.log)

\* lines 388-396: column i with what came of its sub-table
objectSubtable(rowObjs, columnOrder, i, columns, widths, log, column, subcolumnOrder, subtable) ==
  LET columnKey == columnOrder[i + 1]
      jsonKey == StrText(columnKey)
      labelled(j) == jsonKey \o <<":", SP>> \o subtable.rows[j]
  IN
  IF subtable.st = "throw" THEN Cols("throw", <<>>, <<>>, log \o subtable.log, subtable.err)
  ELSE IF subtable.st = "ok"
  THEN objectColumns(rowObjs, columnOrder, i + 1,
         Append(columns, [j \in 1..Len(column) |-> Cell(labelled(j))]),
         Append(widths, Width(Len(labelled(1)))),
         log \o subtable.log
           \o <<Ev("subtable", Arr(rowObjs), columnKey, Arr(column),
                   Len(subcolumnOrder.order), IsArray(FirstDefined(column)))>>)
  ELSE objectColumnCells(rowObjs, columnOrder, i, columns, widths, log \o subtable.log,
         IF tableDecimalAlignment
         THEN alignedCells(tableCells(column, columnKey, rowObjs, FALSE, 1, EmptyCells), jsonKey)
         ELSE plainObjectCells(column, columnKey, rowObjs, jsonKey, 1, EmptyCells))

\* lines 380-397: column i with its values and their column order
objectColumn(rowObjs, columnOrder, i, columns, widths, log, column, subcolumnOrder) ==
  IF subtableTooWide(column, subcolumnOrder) THEN Cols("none", <<>>, <<>>, log, "")
  ELSE objectSubtable(rowObjs, columnOrder, i, columns, widths, log, column, subcolumnOrder,
                      subtableOf(column, subcolumnOrder))

\* lines 377-434: the columns of a table of objects, column i (0-based) on
objectColumns(rowObjs, columnOrder, i, columns, widths, log) ==
  IF i >= Len(columnOrder) THEN Cols("ok", columns, widths, log, "")
  ELSE objectColumn(rowObjs, columnOrder, i, columns, widths, log,
                    columnOf(rowObjs, columnOrder[i + 1]),
                    getTableColumnOrder(Arr(columnOf(rowObjs, columnOrder[i + 1])),
                                        maxObjectProperties, tableMinSharedKeys))

\* columnOrder.findLastIndex(e => e in row), 0-based, -1 when there is none
FindLastIndex(columnOrder, row) ==
  IF \E c \in 1..Len(columnOrder) : HasKey(row, columnOrder[c])
  THEN (CHOOSE c \in 1..Len(columnOrder) :
          HasKey(row, columnOrder[c])
          /\ \A x \in (c + 1)..Len(columnOrder) : ~HasKey(row, columnOrder[x])) - 1
  ELSE -1

\* lines 436-457: the rows of the table, over its columns
objectRows(rowObjs, columnOrder, cols) ==
  LET lastFilledColumn(i) == FindLastIndex(columnOrder, rowObjs[i])
      end(i) == IF tablePadEndOfRows THEN Len(columnOrder) ELSE lastFilledColumn(i) + 1
  IN
  IF cols.st # "ok" THEN Tab(cols.st, <<>>, cols.log, cols.err)
  ELSE IF \E i \in 1..Len(rowObjs) :
            ~IsUndefined(rowObjs[i]) /\ RowThrows(cols.columns, cols.widths, i, end(i))
  THEN Tab("throw", <<>>, cols.log, "RangeError")
  ELSE Tab("ok",
           [i \in 1..Len(rowObjs) |->
              IF IsUndefined(rowObjs[i]) THEN <<>>
              ELSE RowText("{", "}", cols.columns, cols.widths, i, end(i), lastFilledColumn(i))],
           cols.log, "")

\* lines 374-458
tableOfObjects(rowObjs, columnOrder) ==
  objectRows(rowObjs, columnOrder, objectColumns(rowObjs, columnOrder, 0, <<>>, <<>>, <<>>))

\* the loop state of the children of a container
Items(st, items, nested, nestedItems, log, err) ==
  [st |-> st, items |-> items, nested |-> nested, nestedItems |-> nestedItems,
   log |-> log, err |-> err]

\* lines 227-229: what the loop does with the processed item
arrayItem(val, depth, i, nested, nestedItems, items, log, processed) ==
  IF processed.st = "throw"
  THEN Items("throw", <<>>, FALSE, FALSE, log \o processed.log, processed.err)
  \* processed.result of undefined or null
  ELSE IF processed.st # "ok"
  THEN Items("throw", <<>>, FALSE, FALSE, log \o processed.log, "TypeError")
  ELSE arrayItems(val, depth, i + 1,
         nested \/ TypeofObject(val.items[i]),
         nestedItems \/ (nested /\ TypeofObject(val.items[i])),
         Append(items, processed.result), log \o processed.log)

\* lines 223-230: the items of an array, item i (1-based) on; nestedItems is
\* the multipleNestedItems of the code
arrayItems(val, depth, i, nested, nestedItems, items, log) ==
  IF i > Len(val.items) THEN Items("ok", items, nested, nestedItems, log, "")
  ELSE arrayItem(val, depth, i, nested, nestedItems, items, log,
                 processValue(IndexKey(i - 1), val.items[i], depth + 1, val, 0, TRUE))

\* JSON.stringify(k) + ': '
keyString(k) == StrText(k) \o <<":", SP>>

\* lines 277-279: what the loop does with the processed property
objectItem(val, keys, depth, i, nested, nestedItems, items, log, processed) ==
  IF processed.st = "throw"
  THEN Items("throw", <<>>, FALSE, FALSE, log \o processed.log, processed.err)
  \* processed.nested of undefined or null
  ELSE IF processed.st # "ok"
  THEN Items("throw", <<>>, FALSE, FALSE, log \o processed.log, "TypeError")
  ELSE objectItems(val, keys, depth, i + 1,
         nested \/ TypeofObject(Get(val, keys[i])),
         nestedItems \/ processed.nested,
         Append(items, keyString(keys[i]) \o processed.result), log \o processed.log)

\* lines 272-280: the properties of an object, key i (1-based) of keys on
objectItems(val, keys, depth, i, nested, nestedItems, items, log) ==
  IF i > Len(keys) THEN Items("ok", items, nested, nestedItems, log, "")
  ELSE objectItem(val, keys, depth, i, nested, nestedItems, items, log,
                  processValue(keys[i], Get(val, keys[i]), depth + 1, val,
                               Len(keyString(keys[i])), TRUE))

\* lines 231-240: the array formatted from its processed items
processArrayChildren(key, val, depth, parentObj, keyLength, children) ==
  LET formatted == formatArray(children.items, depth, children.nestedItems, keyLength,
                               ~hasAllowInline \/ allowInlineFunc(parentObj, key, val))
  IN
  IF children.st = "throw" THEN Thrown(children.err, children.log)
  ELSE IF formatted.st = "throw" THEN Thrown(formatted.how, children.log)
  ELSE Ok(formatted.text, children.nested,
          Append(children.log, Ev(formatted.how, parentObj, key, val, 0, FALSE)))

\* lines 214-241: the array with the rows of its table, when it has a column
\* order
processArrayTable(key, val, depth, parentObj, keyLength, log, columnOrder, rowsAreArrays, items) ==
  LET isTable == /\ columnOrder.ok
                 /\ items.st = "ok"
                 /\ \A i \in 1..Len(items.rows) : Len(items.rows[i]) <= maxLineLength
      log1 == log \o (IF ~columnOrder.ok THEN <<>>
                      ELSE IF isTable THEN items.log ELSE Calls(items.log))
      table == formatArray(items.rows, depth, TRUE, keyLength, TRUE)
  IN
  IF columnOrder.ok /\ items.st = "throw" THEN Thrown(items.err, log1)
  ELSE IF isTable
  THEN (IF table.st = "throw" THEN Thrown(table.how, log1)
        ELSE Ok(table.text, TRUE,
                Append(log1, Ev("table", parentObj, key, val,
                                Len(columnOrder.order), rowsAreArrays))))
  ELSE processArrayChildren(key, val, depth, parentObj, keyLength,
                            arrayItems(val, depth, 1, FALSE, FALSE, <<>>, log1))

\* lines 210-213: the array with its column order
processArrayOrder(key, val, depth, parentObj, keyLength, log, rval, columnOrder) ==
  processArrayTable(key, val, depth, parentObj, keyLength, log, columnOrder,
    IsArray(Get(rval, IndexKey(0))),
    IF ~columnOrder.ok THEN NoTable
    ELSE IF IsArray(Get(rval, IndexKey(0)))
    THEN tableOfArrays(rval.items, Len(columnOrder.order))
    ELSE tableOfObjects(rval.items, columnOrder.order))

\* lines 206-241
processArray(key, val, depth, parentObj, keyLength, allowTables, log0) ==
  LET tryTable == /\ tableArrays
                  /\ allowTables
                  /\ (~hasAllowTable \/ allowTableFunc(parentObj, key, val))
      rval == IF hasReplaceFunc THEN replaceArrayItems(val) ELSE val
  IN
  processArrayOrder(key, val, depth, parentObj, keyLength,
    log0 \o (IF tryTable /\ hasReplaceFunc THEN replaceArrayItemsLog(val) ELSE <<>>),
    rval,
    IF tryTable THEN getTableColumnOrder(rval, maxObjectProperties, tableMinSharedKeys)
    ELSE NoOrder)

\* lines 282-291: the object formatted from its processed properties
processObjectChildren(key, val, depth, parentObj, keyLength, children) ==
  LET formatted == formatObject(children.items, depth, children.nestedItems, keyLength,
                                ~hasAllowInline \/ allowInlineFunc(parentObj, key, val))
  IN
  IF children.st = "throw" THEN Thrown(children.err, children.log)
  ELSE Ok(formatted.text, children.nested,
          Append(children.log, Ev(formatted.how, parentObj, key, val, 0, FALSE)))

\* Object.keys(val) without the undefined and the function properties
keysOf(val) == SelectSeq(val.keys, LAMBDA k : Representable(Get(val, k)))

\* lines 253-292: the object with the rows of its table, when it has a column
\* order that is not too wide
processObjectTable(key, val, depth, parentObj, keyLength, log, columnOrder, isArray, items) ==
  LET keys == keysOf(val)
      tooWide == Len(columnOrder.order) >
                   (IF isArray THEN maxArrayItems ELSE maxObjectProperties)
      jsonKeys == [i \in 1..Len(keys) |-> StrText(keys[i])]
      keyColumnWidth == arrMax(Lengths(jsonKeys)) + 1
      \* line 261 reads jsonKeys[i].length for every row
      keyMissing == Len(items.rows) > Len(jsonKeys)
      rows == [i \in 1..Len(items.rows) |->
                 jsonKeys[i] \o <<":">> \o Repeat(SP, keyColumnWidth - Len(jsonKeys[i]))
                   \o items.rows[i]]
      isTable == /\ columnOrder.ok
                 /\ ~tooWide
                 /\ items.st = "ok"
                 /\ ~keyMissing
                 /\ \A i \in 1..Len(rows) : Len(rows[i]) <= maxLineLength
      log1 == log \o (IF ~columnOrder.ok \/ tooWide THEN <<>>
                      ELSE IF isTable THEN items.log ELSE Calls(items.log))
      table == formatObject(rows, depth, TRUE, keyLength, TRUE)
  IN
  IF columnOrder.ok /\ tooWide THEN PV("null", <<>>, FALSE, log1, "")
  ELSE IF columnOrder.ok /\ items.st = "throw" THEN Thrown(items.err, log1)
  ELSE IF columnOrder.ok /\ items.st = "ok" /\ keyMissing THEN Thrown("TypeError", log1)
  ELSE IF isTable
  THEN Ok(table.text, TRUE,
          Append(log1, Ev("table", parentObj, key, val, Len(columnOrder.order), isArray)))
  ELSE processObjectChildren(key, val, depth, parentObj, keyLength,
                             objectItems(val, keysOf(val), depth, 1, FALSE, FALSE, <<>>, log1))

\* lines 248-256: the object with its column order
processObjectOrder(key, val, depth, parentObj, keyLength, log, rval, columnOrder, isArray) ==
  processObjectTable(key, val, depth, parentObj, keyLength, log, columnOrder, isArray,
    IF ~columnOrder.ok
         \/ Len(columnOrder.order) > (IF isArray THEN maxArrayItems ELSE maxObjectProperties)
    THEN NoTable
    ELSE IF isArray
    THEN tableOfArrays(ValuesOf(rval), Len(columnOrder.order))
    ELSE tableOfObjects(ValuesOf(rval), columnOrder.order))

\* lines 243-292
processObject(key, val, depth, parentObj, keyLength, allowTables, log0) ==
  LET keys == keysOf(val)
      tryTable == /\ tableObjects
                  /\ allowTables
                  /\ (~hasAllowTable \/ allowTableFunc(parentObj, key, val))
      rval == IF hasReplaceFunc THEN replaceObjectProperties(val, keys) ELSE val
  IN
  processObjectOrder(key, val, depth, parentObj, keyLength,
    log0 \o (IF tryTable /\ hasReplaceFunc THEN replaceObjectPropertiesLog(val, keys) ELSE <<>>),
    rval,
    IF tryTable THEN getTableColumnOrder(rval, maxObjectProperties, tableMinSharedKeys)
    ELSE NoOrder,
    Len(keys) > 0 /\ IsArray(Get(rval, keys[1])))

\* lines 174-293
processValue(key, val0, depth, parentObj, keyLength, allowTables) ==
  LET val == IF hasReplaceFunc THEN replaceFunc(parentObj, key, val0) ELSE val0
      log0 == IF hasReplaceFunc THEN <<Ev("replace", parentObj, key, val0, 0, FALSE)>> ELSE <<>>
  IN
  CASE val.t = "null" -> Ok(NullText, FALSE, log0)
    [] val.t = "str" -> Ok(StrText(val.s), FALSE, log0)
    [] val.t = "num" -> Ok(NumText(val.n, val.e), FALSE, log0)
    [] val.t = "bool" -> Ok(IF val.b THEN TrueText ELSE FalseText, FALSE, log0)
    [] val.t = "arr" -> processArray(key, val, depth, parentObj, keyLength, allowTables, log0)
    [] val.t = "obj" -> processObject(key, val, depth, parentObj, keyLength, allowTables, log0)
    \* undefined or a function: no branch returns
    [] OTHER -> PV("undef", <<>>, FALSE, log0, "")

(* -------------------- JSON.stringify (line 158) ----------------------- *)

\* JSON.stringify(value, replacer) without indentation. A replacer that is
\* not a function (and not an array) is ignored.
Compact(st, text) == [st |-> st, text |-> text]

RECURSIVE SerializeJSON(_, _, _, _)
SerializeJSON(holder, key, val0, useReplacer) ==
  LET val == IF useReplacer THEN replaceFunc(holder, key, val0) ELSE val0
      item(i) == SerializeJSON(val, IndexKey(i - 1), val.items[i], useReplacer)
      prop(i) == SerializeJSON(val, val.keys[i], val.items[i], useReplacer)
      kept == SelectSeq([i \in 1..Len(val.keys) |-> i], LAMBDA i : prop(i).st = "string")
  IN
  CASE val.t = "null" -> Compact("string", NullText)
    [] val.t = "str" -> Compact("string", StrText(val.s))
    [] val.t = "num" -> Compact("string", NumText(val.n, val.e))
    [] val.t = "bool" -> Compact("string", IF val.b THEN TrueText ELSE FalseText)
    [] val.t = "arr" ->
         Compact("string",
           <<"[">> \o Join([i \in 1..Len(val.items) |->
                             IF item(i).st = "string" THEN item(i).text ELSE NullText],
                           <<COMMA>>) \o <<"]">>)
    [] val.t = "obj" ->
         Compact("string",
           <<"{">> \o Join([x \in 1..Len(kept) |->
                             StrText(val.keys[kept[x]]) \o <<":">> \o prop(kept[x]).text],
                           <<COMMA>>) \o <<"}">>)
    [] OTHER -> Compact("undefined", <<>>)

(* ----------------------- stringify (138-518) -------------------------- *)

\* What a call of stringify ends with: st = "string" with the text,
\* "undefined", or "throw" with the name of the error; log is its history.
Outcome(st, text, err, log) == [st |-> st, text |-> text, err |-> err, log |-> log]

NotCalled == Outcome("none", <<>>, "", <<>>)

\* the root holder { '': value }
Root(v) == Obj(<< <<>> >>, <<v>>)

\* line 158: what JSON.stringify gave is what stringify returns
returnCompact(compact) == Outcome(compact.st, compact.text, "", <<>>)

\* line 517: processValue(...)?.result
returnResult(processed) ==
  IF processed.st = "throw" THEN Outcome("throw", <<>>, processed.err, processed.log)
  \* ?.result of undefined or null
  ELSE IF processed.st # "ok" THEN Outcome("undefined", <<>>, "", processed.log)
  ELSE Outcome("string", processed.result, "", processed.log)

stringify(v) ==
  IF Len(indent) = 0
  THEN returnCompact(SerializeJSON(Root(v), <<>>, v,
                                   Given("replace") /\ opts.replace # NotFunction))
  ELSE IF Given("replace") /\ opts.replace = NotFunction
  THEN Outcome("throw", <<>>, "'replace' must be a function.", <<>>)
  ELSE IF Given("allowInline") /\ opts.allowInline = NotFunction
  THEN Outcome("throw", <<>>, "'allowInline' must be a function.", <<>>)
  ELSE IF Given("allowTable") /\ opts.allowTable = NotFunction
  THEN Outcome("throw", <<>>, "'allowTable' must be a function.", <<>>)
  ELSE returnResult(processValue(<<>>, v, 0, Root(v), 0, TRUE))

(* ------------------------ reading the output -------------------------- *)

\* JSON.parse of a text: [ok, v, pos], pos the index after what was read.
\* An object with a key written twice is not accepted.
Parsed(v, pos) == [ok |-> TRUE, v |-> v, pos |-> pos]
NotParsed == [ok |-> FALSE, v |-> Undef, pos |-> 0]

IsSpace(c) == c \in {SP, NL, "\t"}

RECURSIVE SkipSpace(_, _)
SkipSpace(s, i) == IF i <= Len(s) /\ IsSpace(s[i]) THEN SkipSpace(s, i + 1) ELSE i

StartsWith(s, i, w) ==
  i + Len(w) - 1 <= Len(s) /\ \A x \in 1..Len(w) : s[i + x - 1] = w[x]

\* the characters of a string literal whose opening quote is before i
RECURSIVE ParseString(_, _, _)
ParseString(s, i, acc) ==
  IF i > Len(s) THEN NotParsed
  ELSE IF s[i] = DQ THEN Parsed(Str(acc), i + 1)
  ELSE IF s[i] = BSL
  THEN (IF i + 1 <= Len(s) /\ s[i + 1] \in {DQ, BSL}
        THEN ParseString(s, i + 2, Append(acc, s[i + 1]))
        ELSE NotParsed)
  ELSE IF s[i] = NL THEN NotParsed
  ELSE ParseString(s, i + 1, Append(acc, s[i]))

RECURSIVE DigitsEnd(_, _)
DigitsEnd(s, i) == IF i <= Len(s) /\ IsDigit(s[i]) THEN DigitsEnd(s, i + 1) ELSE i

ParseNumber(s, i) ==
  LET neg == s[i] = "-"
      i0 == IF neg THEN i + 1 ELSE i
      i1 == DigitsEnd(s, i0)
      hasFrac == i1 <= Len(s) /\ s[i1] = "."
      i2 == IF hasFrac THEN DigitsEnd(s, i1 + 1) ELSE i1
      whole == KeyNumber(SubSeq(s, i0, i1 - 1))
      e == IF hasFrac THEN i2 - i1 - 1 ELSE 0
      frac == IF hasFrac THEN KeyNumber(SubSeq(s, i1 + 1, i2 - 1)) ELSE 0
      n == whole * Pow10(e) + frac
  IN  IF i1 = i0 \/ (hasFrac /\ i2 = i1 + 1) \/ (i1 - i0 > 1 /\ s[i0] = "0") THEN NotParsed
      ELSE Parsed(Dec(IF neg THEN 0 - n ELSE n, e), i2)

RECURSIVE ParseValue(_, _)
RECURSIVE ParseItems(_, _, _)
RECURSIVE ParseMembers(_, _, _, _)

ParseValue(s, i0) ==
  LET i == SkipSpace(s, i0)
  IN  IF i > Len(s) THEN NotParsed
      ELSE IF s[i] = "[" THEN
        (IF SkipSpace(s, i + 1) <= Len(s) /\ s[SkipSpace(s, i + 1)] = "]"
         THEN Parsed(Arr(<<>>), SkipSpace(s, i + 1) + 1)
         ELSE ParseItems(s, i + 1, <<>>))
      ELSE IF s[i] = "{" THEN
        (IF SkipSpace(s, i + 1) <= Len(s) /\ s[SkipSpace(s, i + 1)] = "}"
         THEN Parsed(Obj(<<>>, <<>>), SkipSpace(s, i + 1) + 1)
         ELSE ParseMembers(s, i + 1, <<>>, <<>>))
      ELSE IF s[i] = DQ THEN ParseString(s, i + 1, <<>>)
      ELSE IF StartsWith(s, i, NullText) THEN Parsed(Null, i + 4)
      ELSE IF StartsWith(s, i, TrueText) THEN Parsed(Bool(TRUE), i + 4)
      ELSE IF StartsWith(s, i, FalseText) THEN Parsed(Bool(FALSE), i + 5)
      ELSE IF s[i] = "-" \/ IsDigit(s[i]) THEN ParseNumber(s, i)
      ELSE NotParsed

\* the items of an array after its "[" or after a comma
ParseItems(s, i, acc) ==
  LET item == ParseValue(s, i)
      j == SkipSpace(s, item.pos)
  IN  IF ~item.ok \/ j > Len(s) THEN NotParsed
      ELSE IF s[j] = COMMA THEN ParseItems(s, j + 1, Append(acc, item.v))
      ELSE IF s[j] = "]" THEN Parsed(Arr(Append(acc, item.v)), j + 1)
      ELSE NotParsed

\* the members of an object after its "{" or after a comma
ParseMembers(s, i, keys, vals) ==
  LET k == SkipSpace(s, i)
      name == IF k <= Len(s) /\ s[k] = DQ THEN ParseString(s, k + 1, <<>>) ELSE NotParsed
      c == SkipSpace(s, name.pos)
      member == IF name.ok /\ c <= Len(s) /\ s[c] = ":" THEN ParseValue(s, c + 1) ELSE NotParsed
      j == SkipSpace(s, member.pos)
  IN  IF ~member.ok \/ j > Len(s) \/ name.v.s \in SeqRange(keys) THEN NotParsed
      ELSE IF s[j] = COMMA
      THEN ParseMembers(s, j + 1, Append(keys, name.v.s), Append(vals, member.v))
      ELSE IF s[j] = "}" THEN Parsed(Obj(Append(keys, name.v.s), Append(vals, member.v)), j + 1)
      ELSE NotParsed

ParseJSON(s) ==
  LET r == ParseValue(s, 1)
  IN  IF r.ok /\ SkipSpace(s, r.pos) = Len(s) + 1 THEN r ELSE NotParsed

\* deep equality of two values; the order of the keys of an object is left aside
RECURSIVE DeepEqual(_, _)
DeepEqual(x, y) ==
  IF x.t # y.t THEN FALSE
  ELSE IF x.t = "arr"
  THEN Len(x.items) = Len(y.items)
       /\ \A i \in 1..Len(x.items) : DeepEqual(x.items[i], y.items[i])
  ELSE IF x.t = "obj"
  THEN Len(x.keys) = Len(y.keys)
       /\ SeqRange(x.keys) = SeqRange(y.keys)
       /\ \A i \in 1..Len(x.keys) : DeepEqual(x.items[i], Get(y, x.keys[i]))
  ELSE x = y

\* the lines of a text
SplitLines(s) ==
  LET breaks == <<0>> \o SelectSeq([i \in 1..Len(s) |-> i], LAMBDA i : s[i] = NL)
                  \o <<Len(s) + 1>>
  IN  [k \in 1..(Len(breaks) - 1) |-> SubSeq(s, breaks[k] + 1, breaks[k + 1] - 1)]

\* a line without the copies of indent it starts with
RECURSIVE StripIndent(_)
StripIndent(line) ==
  IF Len(indent) > 0 /\ StartsWith(line, 1, indent)
  THEN StripIndent(SubSeq(line, Len(indent) + 1, Len(line)))
  ELSE line

\* the first index at which w occurs in s, 0 when it does not
FindSub(s, w) ==
  IF \E i \in 1..Len(s) : StartsWith(s, i, w)
  THEN CHOOSE i \in 1..Len(s) : StartsWith(s, i, w) /\ \A j \in 1..(i - 1) : ~StartsWith(s, j, w)
  ELSE 0

\* no undefined and no function at any place of v
RECURSIVE Plain(_)
Plain(v) == Representable(v) /\ \A i \in 1..Len(v.items) : Plain(v.items[i])

IsContainer(v) == v.t \in {"arr", "obj"}

(* ------------------------------ inputs -------------------------------- *)

\* the bounds of the inputs
MaxItems == 3
MaxRows == 3
MaxDepth == 3

A == <<"a">>
Bk == <<"b">>
Hi == <<"h", "i">>

\* the keys of the containers of rows
RowKeys == << <<"x">>, <<"y">>, <<"z", "z">>, <<"w">>, <<"v">>, <<"u">> >>

Scalars == {Undef, Func, Null, Bool(TRUE), Bool(FALSE), Num(7), Num(130), Dec(-25, 2),
            Str(Hi), Str(<<"q", DQ>>)}

ItemPool == {Null, Num(7), Dec(25, 2), Str(Hi)}

FlatArrays == {Arr(items) : items \in UNION {[1..n -> ItemPool] : n \in 0..MaxItems}}

FlatObjects ==
  {Obj(<<>>, <<>>)} \cup {Obj(<<A>>, <<x>>) : x \in ItemPool}
    \cup {Obj(<<Bk, A>>, <<x, y>>) : x \in ItemPool, y \in ItemPool}

\* rows that are alike and rows that are not
RowPool ==
  {Arr(<<Num(130), Num(7)>>),
   Arr(<<Dec(25, 2), Num(7)>>),
   Obj(<<A>>, <<Num(7)>>),
   Obj(<<A, Bk>>, <<Num(7), Arr(<<Num(7), Num(130)>>)>>),
   Obj(<<Bk, A>>, <<Arr(<<Num(130), Num(7)>>), Str(Hi)>>),
   Undef}

RowLists == UNION {[1..n -> RowPool] : n \in 2..MaxRows}

Tables ==
  {Arr(rows) : rows \in RowLists}
    \cup {Obj(SubSeq(RowKeys, 1, Len(rows)), rows) : rows \in RowLists}

\* a value inside d arrays or objects of one item
RECURSIVE Wrapped(_, _)
Wrapped(vs, d) ==
  IF d = 0 THEN vs
  ELSE vs \cup Wrapped({Arr(<<v>>) : v \in vs} \cup {Obj(<<A>>, <<v>>) : v \in vs}, d - 1)

Nested ==
  Wrapped({Num(7), Undef,
           Obj(<<A, Bk>>, <<Arr(<<Num(7), Num(130)>>), Arr(<<Num(7), Num(130)>>)>>)}, MaxDepth)

\* empty containers as rows beside one another, and inside containers
EmptyRows ==
  LET pool == {Arr(<<>>), Obj(<<>>, <<>>), Obj(<<A>>, <<Num(7)>>)}
  IN  {Arr(<<x, y>>) : x \in pool, y \in pool}
        \cup {Obj(<<A, Bk>>, <<x, y>>) : x \in pool, y \in pool}
        \cup Wrapped({Arr(<<>>), Obj(<<>>, <<>>)}, 2)

Values == Scalars \cup FlatArrays \cup FlatObjects \cup Tables \cup Nested \cup EmptyRows

\* the values given to the calls that hold callbacks
HookValues ==
  Scalars \cup FlatObjects
    \cup {v \in Tables : Len(v.items) = 2}
    \cup Wrapped({Str(Hi)}, 2)

DefaultOptions ==
  [given |-> {}, maxLineLength |-> 100, maxArrayItems |-> 6, maxObjectProperties |-> 6,
   maxArrayItemLength |-> 50, compactLongArrays |-> TRUE, tables |-> TRUE,
   tableArrays |-> TRUE, tableObjects |-> TRUE, tableMinSharedKeys |-> 1,
   tablePadEndOfRows |-> TRUE, tableDecimalAlignment |-> TRUE,
   indent |-> [kind |-> "num", n |-> 2, s |-> <<>>],
   replace |-> "", allowInline |-> "", allowTable |-> "",
   prefixIndent |-> [kind |-> "num", n |-> 0, s |-> <<>>]]

\* the options o with the option name holding val
With(o, name, val) == [o EXCEPT ![name] = val, !.given = @ \cup {name}]

Indents ==
  {[kind |-> "num", n |-> 0, s |-> <<>>], [kind |-> "num", n |-> 4, s |-> <<>>],
   [kind |-> "null", n |-> 0, s |-> <<>>], [kind |-> "str", n |-> 0, s |-> <<"\t">>],
   [kind |-> "str", n |-> 0, s |-> <<>>]}

\* the prefixIndent option of the README: a number of spaces or a string
PrefixIndents ==
  {[kind |-> "num", n |-> 0, s |-> <<>>], [kind |-> "num", n |-> 3, s |-> <<>>],
   [kind |-> "str", n |-> 0, s |-> <<">">>]}

Layouts ==
  {DefaultOptions}
    \cup {With(DefaultOptions, "maxLineLength", n) : n \in {10, 20}}
    \cup {With(DefaultOptions, "maxArrayItems", n) : n \in {1, 2}}
    \cup {With(With(DefaultOptions, "maxArrayItems", 2), "maxLineLength", n) : n \in {7, 10}}
    \cup {With(DefaultOptions, "maxObjectProperties", 1)}
    \cup {With(DefaultOptions, "maxArrayItemLength", 2)}
    \cup {With(DefaultOptions, "tableMinSharedKeys", 2)}
    \cup {With(DefaultOptions, name, FALSE) :
            name \in {"tables", "tableArrays", "tableObjects", "compactLongArrays",
                      "tablePadEndOfRows", "tableDecimalAlignment"}}
    \cup {With(DefaultOptions, "indent", i) : i \in Indents}
    \cup {With(DefaultOptions, "prefixIndent", p) : p \in PrefixIndents}

Callbacks ==
  {<<"replace", "identity">>, <<"replace", "double">>, <<"replace", "dropStrings">>,
   <<"replace", NotFunction>>,
   <<"allowInline", "never">>, <<"allowInline", "notArrays">>, <<"allowInline", NotFunction>>,
   <<"allowTable", "never">>, <<"allowTable", "notArrays">>, <<"allowTable", NotFunction>>}

HookOptions ==
  {With(o, c[1], c[2]) :
     o \in {DefaultOptions, With(DefaultOptions, "maxLineLength", 20)}
            \cup {With(DefaultOptions, "indent", i) : i \in Indents},
     c \in Callbacks}

Init ==
  /\ \/ value \in Values /\ opts \in Layouts
     \/ value \in HookValues /\ opts \in HookOptions
  /\ pc = "start"
  /\ out = NotCalled

\* one call of stringify(value, opts)
Stringify ==
  /\ pc = "start"
  /\ out' = stringify(value)
  /\ pc' = "done"
  /\ UNCHANGED <<value, opts>>

Next == Stringify

Spec == Init /\ [][Next]_vars

(* ---------------------------- properties ------------------------------ *)

\* no callback option holds a value that is not a function
CallbacksAreFunctions ==
  \A name \in {"replace", "allowInline", "allowTable"} :
    Given(name) => opts[name] # NotFunction

NoCallbacks == ~Given("replace") /\ ~Given("allowInline") /\ ~Given("allowTable")

\* the top-level value after the replace callback
TopValue == IF hasReplaceFunc THEN replaceFunc(Root(value), <<>>, value) ELSE value

\* the value the text of a finished call parses to
Reparsed == ParseJSON(out.text)

\* C1: for every value without undefined or function nodes, with default
\* options and no replacer, stringify returns text that is valid JSON and
\* parses back to a value deep-equal to the input.
RoundTrip ==
  (pc = "done" /\ Plain(value) /\ opts.given = {})
    => /\ out.st = "string"
       /\ Reparsed.ok
       /\ DeepEqual(Reparsed.v, value)

\* C2: with a non-empty indent, stringify returns undefined if and only if
\* the (possibly replaced) top-level value is undefined or a function, and
\* returns a string for every other value.
UndefinedOnlyForUnrepresentable ==
  (pc = "done" /\ Len(indent) > 0 /\ CallbacksAreFunctions)
    => /\ out.st = "undefined" <=> ~Representable(TopValue)
       /\ Representable(TopValue) => out.st = "string"

\* C3: for every value without undefined or function nodes and every option
\* set without callbacks, stringify completes without raising an error.
NeverRaises ==
  (pc = "done" /\ Plain(value) /\ NoCallbacks) => out.st # "throw"

\* the lines of the text of a finished call
OutLines == SplitLines(out.text)

StripComma(line) ==
  IF Len(line) > 0 /\ line[Len(line)] = COMMA THEN SubSeq(line, 1, Len(line) - 1) ELSE line

\* a line that holds one scalar, with or without its key label and the
\* comma after it
IsLeafLine(line) ==
  LET body == StripComma(line)
      first == ParseValue(body, 1)
      second == ParseValue(body, first.pos + 2)
  IN  /\ first.ok
      /\ ~IsContainer(first.v)
      /\ \/ first.pos = Len(body) + 1
         \/ /\ first.v.t = "str"
            /\ StartsWith(body, first.pos, <<":", SP>>)
            /\ second.ok
            /\ ~IsContainer(second.v)
            /\ second.pos = Len(body) + 1

\* C4: each line of the output, measured without its leading indentation,
\* is at most maxLineLength long, except a line that holds a single scalar
\* leaf with its key label.
LineBudget ==
  (pc = "done" /\ out.st = "string" /\ Len(indent) > 0)
    => \A i \in 1..Len(OutLines) :
         \/ Len(StripIndent(OutLines[i])) <= maxLineLength
         \/ IsLeafLine(StripIndent(OutLines[i]))

IsTableEvent(ev) == ev.e \in {"table", "subtable"}

Ceiling(ev) == IF ev.rowsAreArrays THEN maxArrayItems ELSE maxObjectProperties

\* the rows of v are all arrays or all objects, and wider than the ceiling
TooWide(v) ==
  LET rows == ValuesOf(v)
  IN  /\ Len(rows) >= 2
      /\ \/ /\ \A i \in 1..Len(rows) : IsArray(rows[i])
            /\ \E i \in 1..Len(rows) : Len(rows[i].items) > maxArrayItems
         \/ /\ \A i \in 1..Len(rows) : rows[i].t = "obj"
            /\ \E i \in 1..Len(rows) : Len(rows[i].keys) > maxObjectProperties

\* C5: a table or sub-table has at most maxArrayItems columns (rows are
\* arrays) or maxObjectProperties columns (rows are objects), and a
\* container whose rows are wider than that is still rendered.
ColumnCeiling ==
  (pc = "done" /\ Len(indent) > 0 /\ CallbacksAreFunctions)
    => /\ \A i \in 1..Len(out.log) :
            IsTableEvent(out.log[i]) => out.log[i].n <= Ceiling(out.log[i])
       /\ (Plain(value) /\ IsContainer(value) /\ TooWide(value)) => out.st = "string"

HoldsNotFunction ==
  \E name \in {"replace", "allowInline", "allowTable"} :
    Given(name) /\ opts[name] = NotFunction

ConfigurationErrors ==
  {"'replace' must be a function.", "'allowInline' must be a function.",
   "'allowTable' must be a function."}

\* C6: whenever replace, allowInline or allowTable holds a value that is not
\* a function, stringify throws a configuration error before any part of
\* the value is processed and returns no text, for every indent setting.
ConfigurationErrorsFailFast ==
  (pc = "done" /\ HoldsNotFunction)
    => /\ out.st = "throw"
       /\ out.err \in ConfigurationErrors
       /\ out.log = <<>>

\* C7: every call of the replace callback gets as parent the container that
\* directly holds the value, and as key the value's name or index in it.
ReplaceGetsParentAndKey ==
  pc = "done"
    => \A i \in 1..Len(out.log) :
         IsCall(out.log[i])
           => /\ HasKey(out.log[i].parent, out.log[i].key)
              /\ Get(out.log[i].parent, out.log[i].key) = out.log[i].val

\* a container of at least two rows that are all objects
IsObjectRows(v) ==
  /\ IsContainer(v)
  /\ Plain(v)
  /\ Len(ValuesOf(v)) >= 2
  /\ \A i \in 1..Len(ValuesOf(v)) : ValuesOf(v)[i].t = "obj"

\* the top-level value was printed as a table
RenderedAsTable ==
  \E i \in 1..Len(out.log) : out.log[i].e = "table" /\ out.log[i].val = value

\* the key label of a column in a row of objects
Label(k) == StrText(k) \o <<":">>

\* where the label of column k starts in a row, counted from the row's brace
LabelOffset(line, k) == FindSub(line, Label(k)) - FindSub(line, <<"{">>)

\* C8: in a table whose rows are objects, a row that lacks a column's key
\* holds no key label for it, and every column starts at the same offset in
\* all the rows that have its key, whichever rows lack a key.
MissingKeysLeaveBlanks ==
  (pc = "done" /\ Len(indent) > 0 /\ NoCallbacks /\ IsObjectRows(value))
    => /\ out.st # "throw"
       /\ (out.st = "string" /\ RenderedAsTable)
            => LET rows == ValuesOf(value)
                   line(i) == OutLines[i + 1]
               IN  \A i \in 1..Len(rows) : \A k \in {A, Bk} :
                     IF HasKey(rows[i], k)
                     THEN \A j \in 1..Len(rows) :
                            HasKey(rows[j], k)
                              => LabelOffset(line(i), k) = LabelOffset(line(j), k)
                     ELSE FindSub(line(i), Label(k)) = 0

\* a child after the replace callback
Replaced(parent, key, child) ==
  IF hasReplaceFunc THEN replaceFunc(parent, key, child) ELSE child

\* v is a container with a child that is undefined or a function, in the
\* input or by the replace callback
HasOmittedChild(v) ==
  /\ IsContainer(v)
  /\ \E i \in 1..Len(OwnKeys(v)) :
       ~Representable(Replaced(v, OwnKeys(v)[i], Get(v, OwnKeys(v)[i])))

\* the value with its omitted entries dropped from objects and null in arrays
Expected == ParseJSON(SerializeJSON(Root(value), <<>>, value, hasReplaceFunc).text)

\* C9: when a child's (possibly replaced) value is undefined or a function,
\* the parent is still rendered as text, an object parent without that entry
\* and an array parent with null at that position.
OmittedChildren ==
  (pc = "done" /\ Len(indent) > 0 /\ CallbacksAreFunctions /\ HasOmittedChild(TopValue))
    => /\ out.st = "string"
       /\ Reparsed.ok
       /\ DeepEqual(Reparsed.v, Expected.v)

HoldsContainer(v) == IsContainer(v) /\ \E i \in 1..Len(v.items) : IsContainer(v.items[i])

\* a container that contains a container which itself contains a container
IsDeep(v) == IsContainer(v) /\ \E i \in 1..Len(v.items) : HoldsContainer(v.items[i])

\* C10: an array or object that contains a container which itself contains
\* a container is never rendered inline on a single line.
NestingRule ==
  pc = "done"
    => \A i \in 1..Len(out.log) : out.log[i].e = "inline" => ~IsDeep(out.log[i].val)

IsScalar(v) == v.t \in {"null", "bool", "num", "str"}

\* the text of a scalar
ScalarText(v) ==
  CASE v.t = "null" -> NullText
    [] v.t = "bool" -> (IF v.b THEN TrueText ELSE FalseText)
    [] v.t = "num" -> NumText(v.n, v.e)
    [] OTHER -> StrText(v.s)

\* the items of an array of scalars between brackets on one line
InlineText(v) ==
  <<"[", SP>> \o Join([i \in 1..Len(v.items) |-> ScalarText(v.items[i])], <<COMMA, SP>>)
    \o <<SP, "]">>

\* the allowInline callback is absent or approves the top-level value
InlineApproved == ~hasAllowInline \/ allowInlineFunc(Root(value), <<>>, value)

\* a top-level array of scalars that meets every condition of the inline form
QualifiesInline ==
  /\ IsArray(value)
  /\ Len(value.items) > 0
  /\ \A i \in 1..Len(value.items) : IsScalar(value.items[i])
  /\ Len(value.items) <= maxArrayItems
  /\ \A i \in 1..Len(value.items) : 2 * Len(ScalarText(value.items[i])) <= maxArrayItemLength2
  /\ Len(InlineText(value)) <= maxLineLength

\* C11: an array whose items are all scalars (null, boolean, number,
\* string), with allowInline approving, at most maxArrayItems items, every
\* item text at most maxArrayItemLength long and the inline text at most
\* maxLineLength long, is rendered inline as [ a, b, c ] on one line, for
\* every combination of scalar kinds among the items.
ScalarArraysInline ==
  (pc = "done" /\ Len(indent) > 0 /\ CallbacksAreFunctions /\ ~Given("replace")
     /\ InlineApproved /\ QualifiesInline)
    => /\ out.st = "string"
       /\ out.text = InlineText(value)

\* the brackets that open the containers the allowInline callback vetoes
VetoedBrackets ==
  IF ~hasAllowInline THEN {}
  ELSE {c \in {"[", "{"} :
          ~allowInlineFunc(Root(value), <<>>, IF c = "[" THEN Arr(<<Null>>) ELSE Obj(<<A>>, <<Null>>))}

\* a line holds a non-empty container of the given bracket from its opening
\* on: in the one-line form the bracket is followed by a space, in the
\* multi-line form by the end of the line
OpensOnLine(line, c) == FindSub(line, <<c, SP>>) > 0

\* C12: a non-empty array or object for which the allowInline callback
\* returns false is never rendered entirely on one line as [ ... ] or
\* { ... }, as an ordinary child, as a table row or as a table cell.
VetoedNeverInline ==
  (pc = "done" /\ Len(indent) > 0 /\ CallbacksAreFunctions /\ out.st = "string")
    => \A i \in 1..Len(OutLines) : \A c \in VetoedBrackets : ~OpensOnLine(OutLines[i], c)

(* -------------------------- tables of numbers -------------------------- *)

NumberPool == {Num(7), Num(130), Dec(25, 2), Dec(-25, 1)}

CellPool == NumberPool \cup {Str(Hi)}

ArrayRowPool ==
  {Arr(<<x, Num(7)>>) : x \in CellPool} \cup {Arr(<<Num(7), Dec(25, 2)>>)}

ObjectRowPool ==
  {Obj(<<A>>, <<x>>) : x \in NumberPool}
    \cup {Obj(<<A, Bk>>, <<x, Num(7)>>) : x \in {Str(Hi), Dec(25, 2), Num(130)}}
    \cup {Obj(<<A, Bk>>, <<Num(7), Dec(25, 2)>>)}

\* rows whose second cell is a row of a sub-table
SubtableRowPool ==
  {Obj(<<A, Bk>>, <<Num(7), Arr(<<y, Num(7)>>)>>) : y \in {Num(7), Num(130), Dec(25, 2)}}
    \cup {Obj(<<A>>, <<Num(130)>>)}

NumberRowLists ==
  UNION {[1..n -> ArrayRowPool] \cup [1..n -> ObjectRowPool] \cup [1..n -> SubtableRowPool] :
           n \in 2..MaxRows}

\* rows of numbers in an array, and pairs of them in an object
NumberTables ==
  {Arr(rows) : rows \in NumberRowLists}
    \cup {Obj(SubSeq(RowKeys, 1, 2), rows) : rows \in {r \in NumberRowLists : Len(r) = 2}}

NumberLayouts == {DefaultOptions, With(DefaultOptions, "tablePadEndOfRows", FALSE)}

NumberInit ==
  /\ value \in NumberTables
  /\ opts \in NumberLayouts
  /\ pc = "start"
  /\ out = NotCalled

\* stringify over the tables of numbers
NumberSpec == NumberInit /\ [][Next]_vars

\* the rows of the top-level value and the output line of each
TableRows == ValuesOf(value)
RowLine(i) == OutLines[i + 1]

\* the keys of the columns of a list of rows
ColumnKeys(rows) == UNION {SeqRange(OwnKeys(rows[i])) : i \in 1..Len(rows)}

\* the rows that hold a cell in the column
RowsWith(rows, key) == {i \in 1..Len(rows) : HasKey(rows[i], key)}

\* every cell the rows hold in the column is a number
NumericColumn(rows, key) == \A i \in RowsWith(rows, key) : Get(rows[i], key).t = "num"

\* the first index from position from on at which w occurs in the line
FindFrom(line, from, w) ==
  CHOOSE i \in from..(Len(line) + 1) :
    /\ i = Len(line) + 1 \/ StartsWith(line, i, w)
    /\ \A j \in from..(i - 1) : ~StartsWith(line, j, w)

\* the index of the k-th comma of the line from position from on
NthComma(line, from, k) ==
  CHOOSE i \in from..Len(line) :
    line[i] = COMMA /\ Cardinality({j \in from..i : line[j] = COMMA}) = k

\* where the text of the cell of a column starts in a line, for a row whose
\* text starts at position from or after it
CellStart(line, from, row, key) ==
  IF IsArray(row)
  THEN SkipSpace(line, IF KeyNumber(key) = 0 THEN FindFrom(line, from, <<"[">>) + 1
                       ELSE NthComma(line, from, KeyNumber(key)) + 1)
  ELSE SkipSpace(line, FindFrom(line, from, Label(key)) + Len(Label(key)))

RECURSIVE NumberEnd(_, _)
NumberEnd(line, i) ==
  IF i <= Len(line) /\ (IsDigit(line[i]) \/ line[i] \in {"-", "."})
  THEN NumberEnd(line, i + 1) ELSE i

\* the numeric text that starts at a position of a line
TokenAt(line, start) == SubSeq(line, start, NumberEnd(line, start) - 1)

\* the offset in the line of the decimal point of the number that starts at
\* a position, or of the end of its digits when it has no fraction
PointOffset(line, start) ==
  start + (IF Includes(TokenAt(line, start), ".") THEN IndexOf(TokenAt(line, start), ".")
           ELSE Len(TokenAt(line, start)))

\* the numeric columns of rows, each row's text starting at from[i] in its
\* line: the numbers are as JSON writes them and their points are aligned
ColumnsAligned(rows, from) ==
  \A key \in ColumnKeys(rows) :
    NumericColumn(rows, key)
      => \A i \in RowsWith(rows, key) :
           LET start(x) == CellStart(RowLine(x), from[x], rows[x], key)
           IN  /\ TokenAt(RowLine(i), start(i)) = NumText(Get(rows[i], key).n, Get(rows[i], key).e)
               /\ \A j \in RowsWith(rows, key) :
                    PointOffset(RowLine(i), start(i)) = PointOffset(RowLine(j), start(j))

\* the column of the top-level table was printed as a sub-table
IsSubtable(key) ==
  \E x \in 1..Len(out.log) :
    /\ out.log[x].e = "subtable"
    /\ out.log[x].key = key
    /\ out.log[x].val = Arr(columnOf(TableRows, key))

\* the rows of the sub-table of a column, with a row of no cells for a row
\* that has none, and where each starts in its line
SubtableRows(key) ==
  [i \in 1..Len(TableRows) |->
     IF HasKey(TableRows[i], key) THEN Get(TableRows[i], key) ELSE Arr(<<>>)]

SubtableFrom(key) ==
  [i \in 1..Len(TableRows) |->
     IF HasKey(TableRows[i], key) THEN CellStart(RowLine(i), 1, TableRows[i], key) ELSE 1]

\* C13: with tableDecimalAlignment enabled, in every produced table, of rows
\* that are arrays and of rows that are objects, sub-tables included, for
\* each column in which every present cell is a number, the decimal point of
\* each cell (or the end of its digits) is at the same offset in every row
\* line, and the numeric text of each cell is unchanged.
DecimalPointsAligned ==
  (pc = "done" /\ out.st = "string" /\ Len(indent) > 0 /\ NoCallbacks
     /\ tableDecimalAlignment /\ Plain(value) /\ IsContainer(value) /\ RenderedAsTable)
    => /\ ColumnsAligned(TableRows, [i \in 1..Len(TableRows) |-> 1])
       /\ \A key \in ColumnKeys(TableRows) :
            IsSubtable(key) => ColumnsAligned(SubtableRows(key), SubtableFrom(key))

\* a table was produced in which a numeric column holds a cell with a
\* fraction and a cell without, the one moved right to meet the other
DecimalPointsAlignedWitness ==
  /\ pc = "done" /\ out.st = "string" /\ tableDecimalAlignment /\ RenderedAsTable
  /\ \E key \in ColumnKeys(TableRows) :
       /\ NumericColumn(TableRows, key)
       /\ \E i \in RowsWith(TableRows, key) : \E j \in RowsWith(TableRows, key) :
            /\ Get(TableRows[i], key).e > 0
            /\ Get(TableRows[j], key).e = 0
            /\ CellStart(RowLine(i), 1, TableRows[i], key)
                 # CellStart(RowLine(j), 1, TableRows[j], key)

(* ------------------------- tables of keyed rows ------------------------ *)

Ck == <<"c">>

\* the keys of a row, in the order the row holds them
KeyOrders ==
  {<<A>>, <<Bk>>, <<Ck>>, <<A, Bk>>, <<Bk, A>>, <<Ck, A>>, <<Bk, Ck>>, <<A, Bk, Ck>>}

Sevens(n) == [i \in 1..n |-> Num(7)]

KeyRowPool == {Obj(ks, Sevens(Len(ks))) : ks \in KeyOrders}

\* rows whose cell a is a row of a sub-table of objects
SubKeyRowPool ==
  {Obj(<<A>>, <<Obj(ks, Sevens(Len(ks)))>>) : ks \in {<<A>>, <<Bk>>, <<A, Bk>>}}
    \cup {Obj(<<Bk>>, <<Num(7)>>)}

KeyRowLists ==
  UNION {[1..n -> KeyRowPool] \cup [1..n -> SubKeyRowPool] : n \in 2..MaxRows}

KeyTables ==
  {Arr(rows) : rows \in KeyRowLists}
    \cup {Obj(SubSeq(RowKeys, 1, 2), rows) : rows \in {r \in KeyRowLists : Len(r) = 2}}

KeyLayouts ==
  {DefaultOptions} \cup {With(DefaultOptions, "tableMinSharedKeys", n) : n \in {0, 2, 3}}

KeyInit ==
  /\ value \in KeyTables
  /\ opts \in KeyLayouts
  /\ pc = "start"
  /\ out = NotCalled

\* stringify over the tables of keyed rows
KeySpec == KeyInit /\ [][Next]_vars

\* the rows of a table: the values of its container that are not undefined
RowsOf(v) == SelectSeq(ValuesOf(v), Representable)

\* the keys every row holds
SharedKeys(rows) == {k \in ColumnKeys(rows) : \A i \in 1..Len(rows) : HasKey(rows[i], k)}

\* C14: whenever a table or sub-table with object rows is produced, the
\* number of keys present in every row is at least the smaller of
\* tableMinSharedKeys and the number of distinct keys over all rows; objects
\* sharing fewer keys than that are never rendered as a table.
SharedKeyThreshold ==
  (pc = "done" /\ NoCallbacks)
    => \A x \in 1..Len(out.log) :
         (IsTableEvent(out.log[x]) /\ ~out.log[x].rowsAreArrays)
           => Cardinality(SharedKeys(RowsOf(out.log[x].val)))
                >= Min2(tableMinSharedKeys, Cardinality(ColumnKeys(RowsOf(out.log[x].val))))

\* a table of object rows was produced whose rows share fewer keys than they
\* hold, and no more than the threshold asks for
SharedKeyThresholdWitness ==
  /\ pc = "done" /\ out.st = "string" /\ RenderedAsTable
  /\ \A i \in 1..Len(TableRows) : TableRows[i].t = "obj"
  /\ tableMinSharedKeys > 1
  /\ Cardinality(SharedKeys(TableRows)) = tableMinSharedKeys
  /\ Cardinality(SharedKeys(TableRows)) < Cardinality(ColumnKeys(TableRows))

\* the text the prefixIndent option asks for: its string, or its number of
\* spaces, and nothing when it is absent
PrefixText ==
  IF ~Given("prefixIndent") THEN <<>>
  ELSE IF opts.prefixIndent.kind = "num" THEN Repeat(SP, opts.prefixIndent.n)
  ELSE opts.prefixIndent.s

\* C15: when the prefixIndent option is given, every indented line of the
\* multi-line output starts with that extra prefix in addition to the
\* per-depth indent; with prefixIndent 0 or absent no extra prefix is added.
PrefixIndentApplied ==
  (pc = "done" /\ out.st = "string" /\ Len(indent) > 0 /\ NoCallbacks)
    => \A i \in 2..(Len(OutLines) - 1) :
         /\ StartsWith(OutLines[i], 1, PrefixText \o indent)
         /\ PrefixText = <<>> => ~StartsWith(OutLines[i], 1, <<">">>)

\* what getTableColumnOrder returns for the top-level value
TopOrder == getTableColumnOrder(value, maxObjectProperties, tableMinSharedKeys)

\* a before b in a sequence of keys that holds both
Precedes(ks, a, b) == KeyIndex(ks, a) > 0 /\ KeyIndex(ks, a) < KeyIndex(ks, b)

\* C16: whenever getTableColumnOrder returns a column order for object
\* rows, for every row and every two keys A and B of that row with A before
\* B in the row's own key order, A precedes B in the returned order; so no
\* order is returned when the before/after relation holds a cycle.
ColumnOrderConsistent ==
  (pc = "done" /\ NoCallbacks /\ IsObjectRows(value) /\ TopOrder.ok)
    => \A i \in 1..Len(TableRows) : \A a, b \in SeqRange(OwnKeys(TableRows[i])) :
         Precedes(OwnKeys(TableRows[i]), a, b) => Precedes(TopOrder.order, a, b)

\* key a is before key b in one row and after it in another
Conflicting(a, b) ==
  \E i, j \in 1..Len(TableRows) :
    Precedes(OwnKeys(TableRows[i]), a, b) /\ Precedes(OwnKeys(TableRows[j]), b, a)

\* the first key seen across all rows
FirstKeySeen == OwnKeys(TableRows[1])[1]

\* C17: if some key A appears before key B in one row and after B in
\* another row, getTableColumnOrder returns null and no table is printed,
\* for every pair of keys, the first key seen across all rows included.
AmbiguousOrderDisqualifies ==
  (pc = "done" /\ NoCallbacks /\ IsObjectRows(value)
     /\ \E a, b \in ColumnKeys(TableRows) : Conflicting(a, b))
    => /\ ~TopOrder.ok
       /\ ~RenderedAsTable

\* rows that share enough keys for a table and whose first key is before
\* another key in one row and after it in another were printed, not as a
\* table
AmbiguousOrderDisqualifiesWitness ==
  /\ pc = "done" /\ out.st = "string" /\ IsObjectRows(value)
  /\ ~tooFewSharedKeys(SharedKeys(TableRows),
                       Dedup(Flat([i \in 1..Len(TableRows) |-> OwnKeys(TableRows[i])]), <<>>),
                       tableMinSharedKeys)
  /\ \E b \in ColumnKeys(TableRows) : Conflicting(FirstKeySeen, b)
  /\ ~RenderedAsTable

(* ----------------------------- long arrays ----------------------------- *)

\* the length of the longest array given to the packer
MaxPacked == 12

\* arrays of short and long items, longer than maxArrayItems
PackArrays ==
  {Arr(items) : items \in UNION {[1..n -> {Num(7), Str(Hi)}] : n \in 7..MaxPacked}}

PackLayouts == {DefaultOptions} \cup {With(DefaultOptions, "maxLineLength", n) : n \in {15, 20}}

PackInit ==
  /\ value \in PackArrays
  /\ opts \in PackLayouts
  /\ pc = "start"
  /\ out = NotCalled

\* stringify over the long arrays
PackSpec == PackInit /\ [][Next]_vars

\* the top-level value was printed as a packed grid
Packed == \E x \in 1..Len(out.log) : out.log[x].e = "packed" /\ out.log[x].val = value

\* the lengths of the item texts of the top-level array
ItemLengths == [i \in 1..Len(value.items) |-> Len(ScalarText(value.items[i]))]

\* the greatest length among the items at positions j, j + c, j + 2c, ...
ColumnMax(c, j) ==
  CHOOSE m \in SeqRange(ItemLengths) :
    /\ \E i \in 1..Len(ItemLengths) : i % c = j % c /\ ItemLengths[i] = m
    /\ \A i \in 1..Len(ItemLengths) : i % c = j % c => ItemLengths[i] <= m

RECURSIVE SumTo(_, _)
SumTo(f, n) == IF n = 0 THEN 0 ELSE f[n] + SumTo(f, n - 1)

\* c columns fit the line
Fits(c) == SumTo([j \in 1..c |-> ColumnMax(c, j)], c) + 2 * (c - 1) <= maxLineLength

\* the candidate column counts and the largest that fits, 1 when none does
Candidates == 1..CeilSqrt(Len(ItemLengths))

LargestFit ==
  IF \E c \in Candidates : Fits(c)
  THEN CHOOSE c \in Candidates : Fits(c) /\ \A d \in Candidates : Fits(d) => d <= c
  ELSE 1

\* C18: for every list of item lengths that qualifies for packing, the
\* column count chosen by findMaxItemsWide is the largest c in
\* [1, ceil(sqrt(n))] such that the sum of the column widths plus 2 * (c - 1)
\* is at most maxLineLength (and 1 when no c fits); the grid is printed that
\* many items wide.
PackerOptimum ==
  (pc = "done" /\ out.st = "string" /\ IsArray(value) /\ Packed)
    => /\ findMaxItemsWide(value.items, ItemLengths, maxLineLength)[1] = LargestFit
       /\ Len(OutLines) = CeilDiv(Len(ItemLengths), LargestFit) + 2

\* the number of empty containers of kind t in a value
RECURSIVE CountEmpty(_, _)
CountEmpty(v, t) ==
  IF ~IsContainer(v) THEN 0
  ELSE IF Len(v.items) = 0 THEN (IF v.t = t THEN 1 ELSE 0)
  ELSE SumTo([i \in 1..Len(v.items) |-> CountEmpty(v.items[i], t)], Len(v.items))

\* the number of places of a text at which w occurs
Occurrences(text, w) == Cardinality({i \in 1..Len(text) : StartsWith(text, i, w)})

\* no string of the value holds a bracket
RECURSIVE NoBracketInStrings(_)
NoBracketInStrings(v) ==
  /\ \A c \in {"[", "]", "{", "}"} :
       ~Includes(v.s, c) /\ \A i \in 1..Len(v.keys) : ~Includes(v.keys[i], c)
  /\ \A i \in 1..Len(v.items) : NoBracketInStrings(v.items[i])

\* C19: every empty array of the input is rendered as exactly [] and every
\* empty object as exactly {}, at every position in the tree, also when the
\* empty container is one of several sibling rows of a table candidate.
EmptyContainersExact ==
  (pc = "done" /\ out.st = "string" /\ NoCallbacks /\ Plain(value) /\ NoBracketInStrings(value))
    => /\ Occurrences(out.text, <<"[", "]">>) = CountEmpty(value, "arr")
       /\ Occurrences(out.text, <<"{", "}">>) = CountEmpty(value, "obj")

====
